---------------------------- MODULE Spec2Model ----------------------------
(***************************************************************************)
(* Model of public/script.js: the SentenceApp controller of the message    *)
(* board.  One state variable per DOM control and per instance field, one  *)
(* action per event listener and per continuation of an async method.      *)
(*                                                                         *)
(* An async method is a call chain in tasks: it is suspended at an await   *)
(* and a Resume action runs it to its next await or to its end.  The       *)
(* variables event, sent, alerts and received record what the last step    *)
(* ran, requested, showed and was given.  Strings are atomic; StringChars  *)
(* gives the characters of those the code trims.                           *)
(***************************************************************************)
EXTENDS Integers, Sequences, FiniteSets, TLC

(***************************************************************************)
(* Bounds of the model.                                                    *)
(***************************************************************************)
\* async call chains (addSentence, deleteSentence, loadInitialData,
\* fetchAndRenderSentences) that may be suspended at an await at one time
MaxTasks == 2
\* largest number of sentences in one response of the sentence-list endpoint
MaxItems == 1
\* number of timer handles the model hands out (setTimeout ids)
MaxTimers == 2
\* milliseconds of one step of the clock
TickMs == 150
\* number of user actions in one behaviour, not counting the edits of the
\* sentence text
MaxActions == 2

(***************************************************************************)
(* Program constants.                                                      *)
(***************************************************************************)
\* setTimeout(..., 300) of the search listener
DEBOUNCE_MS == 300

\* this.currentFilters of the constructor and of clearAllFilters: a JS object
\* is an ordered list of (key, value) properties
DefaultFilters ==
    << <<"category", "all">>, <<"user", "all">>,
       <<"sortBy", "newest">>, <<"search", "">> >>

UsersUrl == <<"api", "sentences", "users">>
SentencesUrl == <<"api", "sentences">>
LoginRoute == "/auth/login"
Dashboard == "/dashboard"

EmptyAlert == <<"Your message cannot be empty.">>
CreateUnauthorizedAlert ==
    <<"You must be logged in to post a message. Redirecting to login.">>
DeleteUnauthorizedAlert ==
    <<"You must be logged in to delete a message. Redirecting to login.">>
ForbiddenAlert ==
    <<"You can only delete your own messages. This message belongs to another user.">>

(***************************************************************************)
(* Input domains: what the user can enter and what the server can answer.  *)
(***************************************************************************)
\* the characters of every string the code trims
StringChars ==
    [s \in {"", " ", "h", " h ", "a", "a ", "x"} |->
        CASE s = ""    -> <<>>
          [] s = " "   -> <<" ">>
          [] s = "h"   -> <<"h">>
          [] s = " h " -> <<" ", "h", " ">>
          [] s = "a"   -> <<"a">>
          [] s = "a "  -> <<"a", " ">>
          [] s = "x"   -> <<"x">>]
Whitespace == {" "}
TextValues == {"", " h "}
NameValues == {" ", "a"}
PostCategories == {"thoughts", "jokes"}
CategoryOptions == {"all", "jokes"}
SortOptions == {"newest", "oldest"}
SearchValues == {"", "x"}
Keys == {"Enter", "h"}
\* status codes of the answers to POST and DELETE, and to the two GETs
WriteStatuses == {201, 401, 403, 500}
ReadStatuses == {200, 500}
\* the server's user lists
UserLists == {<<>>, <<"a">>}
\* the server's sentences
SentencePool ==
    { [id |-> "1", name |-> "a", category |-> "jokes", text |-> "h"],
      [id |-> "2", name |-> "b", category |-> "thoughts", text |-> "h"] }
\* bodies of a non-2xx answer: {error: ...}, {} ; an unparseable body rejects
ErrorBodies == {<<"quota exceeded">>, <<>>}

\* the sequences of at most n distinct elements of S
SeqsNoRepeat(S, n) ==
    UNION { { q \in [1..k -> S] : \A i, j \in 1..k : i # j => q[i] # q[j] } :
            k \in 0..n }

SentenceLists == SeqsNoRepeat(SentencePool, MaxItems)

(***************************************************************************)
(* Pure helpers.                                                           *)
(***************************************************************************)
RECURSIVE TrimStart(_)
TrimStart(q) ==
    IF q # <<>> /\ Head(q) \in Whitespace THEN TrimStart(Tail(q)) ELSE q

RECURSIVE TrimEnd(_)
TrimEnd(q) ==
    IF q # <<>> /\ q[Len(q)] \in Whitespace
    THEN TrimEnd(SubSeq(q, 1, Len(q) - 1)) ELSE q

\* String.prototype.trim
Trim(s) ==
    LET q == TrimEnd(TrimStart(StringChars[s]))
    IN  CHOOSE r \in DOMAIN StringChars : StringChars[r] = q

\* obj[key] of a JS object held as its ordered (key, value) properties
Get(obj, key) ==
    LET i == CHOOSE i \in 1..Len(obj) : obj[i][1] = key IN obj[i][2]

HasKey(obj, key) == \E i \in 1..Len(obj) : obj[i][1] = key

\* obj[key] = value: an existing property keeps its place, a new one is added
\* at the end
SetProp(obj, key, value) ==
    IF HasKey(obj, key)
    THEN [i \in 1..Len(obj) |->
             IF obj[i][1] = key THEN <<key, value>> ELSE obj[i]]
    ELSE Append(obj, <<key, value>>)

\* new URLSearchParams(obj): the list of name-value pairs of obj's own
\* properties, in property order
URLSearchParams(obj) == [i \in 1..Len(obj) |-> <<obj[i][1], obj[i][2]>>]

\* response.ok
Ok(status) == status \in 200..299

UsersRequest ==
    [method |-> "GET", url |-> UsersUrl, query |-> <<>>, body |-> <<>>]

\* fetchAndRenderSentences, the request it builds
SentencesRequest(filters) ==
    [method |-> "GET", url |-> SentencesUrl,
     query |-> URLSearchParams(filters), body |-> <<>>]

\* addSentence, the request it builds
CreateRequest(text, name, category) ==
    [method |-> "POST", url |-> SentencesUrl, query |-> <<>>,
     body |-> <<[text |-> text, name |-> name, category |-> category]>>]

\* deleteSentence, the request it builds
DeleteRequest(id) ==
    [method |-> "DELETE", url |-> Append(SentencesUrl, id),
     query |-> <<>>, body |-> <<>>]

getCategoryDisplayName(category) ==
    CASE category = "thoughts"  -> "Thoughts (icon)"
      [] category = "quotes"    -> "Quotes (icon)"
      [] category = "stories"   -> "Stories (icon)"
      [] category = "jokes"     -> "Jokes (icon)"
      [] category = "questions" -> "Questions (icon)"
      [] category = "facts"     -> "Facts (icon)"
      [] category = "other"     -> "Other (icon)"
      [] OTHER                  -> category

\* sortBy.charAt(0).toUpperCase() + sortBy.slice(1)
Capitalize(s) ==
    CASE s = "newest" -> "Newest"
      [] s = "oldest" -> "Oldest"
      [] OTHER        -> s

EmptyState == [kind |-> "empty-state", sentence |-> <<>>, deleteBtn |-> <<>>]
ErrorState == [kind |-> "error", sentence |-> <<>>, deleteBtn |-> <<>>]

\* an item that always gets the delete button
RenderItem_AlwaysDelete(sentence, currentUser) ==
    [kind |-> "sentence-item", sentence |-> <<sentence>>,
     deleteBtn |-> <<sentence.id>>]

\* one <li> of renderSentences: the delete button carries data-id
RenderItem(sentence, currentUser) ==
    [kind |-> "sentence-item", sentence |-> <<sentence>>,
     deleteBtn |-> IF sentence.name = currentUser
                   THEN <<sentence.id>> ELSE <<>>]

\* a render that filters locally: only the current user's sentences
RenderList_OwnOnly(sentences, currentUser) ==
    LET own == SelectSeq(sentences, LAMBDA x : x.name = currentUser)
    IN  IF Len(own) = 0
        THEN <<EmptyState>>
        ELSE [i \in 1..Len(own) |-> RenderItem(own[i], currentUser)]

\* a render without the empty-state branch: an empty result leaves the list
\* element empty
RenderList_NoEmptyState(sentences, currentUser) ==
    [i \in 1..Len(sentences) |-> RenderItem(sentences[i], currentUser)]

\* renderSentences: the children of sentencesList
RenderList(sentences, currentUser) ==
    IF Len(sentences) = 0
    THEN <<EmptyState>>
    ELSE [i \in 1..Len(sentences) |-> RenderItem(sentences[i], currentUser)]

\* renderActiveFiltersText: the parts of the summary
FilterParts(filters) ==
    (IF Get(filters, "category") # "all"
     THEN << <<"Category", getCategoryDisplayName(Get(filters, "category"))>> >>
     ELSE <<>>)
    \o (IF Get(filters, "user") # "all"
        THEN << <<"User", Get(filters, "user")>> >> ELSE <<>>)
    \o (IF Get(filters, "search") # "" /\ Trim(Get(filters, "search")) # ""
        THEN << <<"Search", Get(filters, "search")>> >> ELSE <<>>)
    \o << <<"Sorted by", Capitalize(Get(filters, "sortBy"))>> >>

\* the options of the user filter after loadUsersForFilter
UserOptions(users) == <<"all">> \o users

Range(q) == {q[i] : i \in 1..Len(q)}

\* select.value = v: selects the option with that value; no such option
\* leaves nothing selected and the value reads ""
SelectValue(options, v) == IF v \in Range(options) THEN v ELSE ""

RemoveAt(q, i) == SubSeq(q, 1, i - 1) \o SubSeq(q, i + 1, Len(q))

Min(a, b) == IF a < b THEN a ELSE b

(***************************************************************************)
(* State.                                                                  *)
(***************************************************************************)
VARIABLES
    nameInput,       \* nameInput.value
    categorySelect,  \* categorySelect.value
    sentenceInput,   \* sentenceInput.value
    addSentenceBtn,  \* [textContent, disabled]
    searchInput,     \* searchInput.value
    categoryFilter,  \* categoryFilter.value
    userFilter,      \* [options, value]
    sortBy,          \* sortBy.value
    activeFilters,   \* the parts of the summary; <<>> before the first render
    sentencesList,   \* the children of the list element
    sentencesCount,  \* <<n>> for "n Messages"; <<>> before the first render
    allSentences,
    allUsers,
    currentFilters,
    searchTimeout,   \* the timer handle held by the controller; 0 is null
    timers,          \* pending timers: handle -> milliseconds elapsed
    location,        \* window.location.href
    tasks,           \* the async call chains suspended at an await
    event,           \* the listener or continuation that ran in the last step
    sent,            \* the requests issued by the last step
    alerts,          \* the alert shown by the last step
    received,        \* the parsed body response.json() gave the last step
    answered,        \* the request whose settling resumed the last step's chain
    quiet,           \* milliseconds since the last input event of the search field
    actions          \* number of user actions so far, bounded by MaxActions

dom == <<nameInput, categorySelect, sentenceInput, addSentenceBtn, searchInput,
         categoryFilter, userFilter, sortBy, activeFilters, sentencesList,
         sentencesCount, location>>
fields == <<allSentences, allUsers, currentFilters, searchTimeout>>
vars == <<dom, fields, timers, tasks, event, sent, alerts, received, answered,
          quiet, actions>>

(***************************************************************************)
(* Construction: the constructor reads the controls, sets the fields and   *)
(* calls init, which registers the listeners and calls loadInitialData;    *)
(* that runs up to its first await, the user-list request.                 *)
(***************************************************************************)
Task(kind, pc, req) == [kind |-> kind, pc |-> pc, req |-> req]
\* status is the status code of the response a continuation was given, and
\* NetworkFailure where there is none
Event(type, status) == [type |-> type, status |-> status]
\* the status the model gives a fetch that rejects (no response)
NetworkFailure == 0

Init ==
    /\ nameInput \in NameValues
    /\ categorySelect = "thoughts"
    /\ sentenceInput = ""
    /\ addSentenceBtn = [textContent |-> "Add", disabled |-> FALSE]
    /\ searchInput = ""
    /\ categoryFilter = "all"
    /\ userFilter = [options |-> <<"all">>, value |-> "all"]
    /\ sortBy = "newest"
    /\ activeFilters = <<>>
    /\ sentencesList = <<>>
    /\ sentencesCount = <<>>
    /\ location = Dashboard
    /\ allSentences = <<>>
    /\ allUsers = <<>>
    /\ currentFilters = DefaultFilters
    /\ searchTimeout = 0
    /\ timers = {}
    /\ tasks = <<Task("init", "users", UsersRequest)>>
    /\ event = Event("DOMContentLoaded", NetworkFailure)
    /\ sent = <<UsersRequest>>
    /\ alerts = <<>>
    /\ received = <<>>
    /\ answered = <<>>
    /\ quiet = DEBOUNCE_MS
    /\ actions = 0

(***************************************************************************)
(* Steps shared by the listeners and the continuations.                    *)
(***************************************************************************)
\* a return without the finally block
Finish_NoFinally(i) ==
    /\ tasks' = RemoveAt(tasks, i)
    /\ addSentenceBtn' = addSentenceBtn

\* the call chain i returns; addSentence's finally block re-enables the button
Finish(i) ==
    /\ tasks' = RemoveAt(tasks, i)
    /\ addSentenceBtn' = IF tasks[i].kind = "add"
                         THEN [textContent |-> "Add", disabled |-> FALSE]
                         ELSE addSentenceBtn

\* fetchAndRenderSentences up to its first await, called from chain i
fetchAndRenderSentences(i) ==
    LET req == SentencesRequest(currentFilters)
    IN  /\ tasks' = [tasks EXCEPT ![i] = Task(tasks[i].kind, "sentences", req)]
        /\ sent' = <<req>>

\* a reload that skips the user list
loadInitialData_SentencesOnly(i) == fetchAndRenderSentences(i)

\* loadInitialData up to its first await, called from chain i
loadInitialData(i) ==
    /\ tasks' = [tasks EXCEPT ![i] = Task(tasks[i].kind, "users", UsersRequest)]
    /\ sent' = <<UsersRequest>>

\* a listener's fetch that first abandons the sentence-list fetches in flight
fetchFromListener_Cancelling(filters) ==
    LET req == SentencesRequest(filters)
        kept == SelectSeq(tasks, LAMBDA t : t.kind # "read")
    IN  /\ Len(tasks) < MaxTasks
        /\ tasks' = Append(kept, Task("read", "sentences", req))
        /\ sent' = <<req>>

\* fetchAndRenderSentences called from a listener: a new call chain
fetchFromListener(filters) ==
    LET req == SentencesRequest(filters)
    IN  /\ Len(tasks) < MaxTasks
        /\ tasks' = Append(tasks, Task("read", "sentences", req))
        /\ sent' = <<req>>

\* a handler that fetches before it stores the new value
handleFilterChange_Stale(key, value) ==
    /\ currentFilters' = SetProp(currentFilters, key, value)
    /\ fetchFromListener(currentFilters)

handleFilterChange(key, value) ==
    /\ currentFilters' = SetProp(currentFilters, key, value)
    /\ fetchFromListener(currentFilters')

\* a validation that forgets the name
Invalid_TextOnly(text, name) == text = ""

\* !text || !name
Invalid(text, name) == text = "" \/ name = ""

addSentence ==
    LET text == Trim(sentenceInput)
        name == Trim(nameInput)
        category == categorySelect
        req == CreateRequest(text, name, category)
    IN  \/ /\ Invalid(text, name)
           /\ alerts' = EmptyAlert
           /\ sent' = <<>>
           /\ UNCHANGED <<addSentenceBtn, tasks>>
        \/ /\ ~Invalid(text, name)
           /\ Len(tasks) < MaxTasks
           /\ addSentenceBtn' = [textContent |-> "Adding...", disabled |-> TRUE]
           /\ tasks' = Append(tasks, Task("add", "create", req))
           /\ sent' = <<req>>
           /\ alerts' = <<>>

\* a deleteSentence that does not wait for the answer to confirm()
deleteSentence_NoConfirm(id, confirmed) ==
    /\ Len(tasks) < MaxTasks
    /\ tasks' = Append(tasks, Task("delete", "delete", DeleteRequest(id)))
    /\ sent' = <<DeleteRequest(id)>>

deleteSentence(id, confirmed) ==
    \/ /\ ~confirmed
       /\ sent' = <<>>
       /\ UNCHANGED tasks
    \/ /\ confirmed
       /\ Len(tasks) < MaxTasks
       /\ tasks' = Append(tasks, Task("delete", "delete", DeleteRequest(id)))
       /\ sent' = <<DeleteRequest(id)>>

(***************************************************************************)
(* The user's actions on controls without a listener.                      *)
(***************************************************************************)
TypeSentence(v) ==
    /\ v # sentenceInput
    /\ sentenceInput' = v
    /\ event' = Event("edit:sentenceInput", NetworkFailure)
    /\ received' = <<>>
    /\ answered' = <<>>
    /\ sent' = <<>>
    /\ alerts' = <<>>
    /\ UNCHANGED <<nameInput, categorySelect, addSentenceBtn, searchInput,
                   categoryFilter, userFilter, sortBy, activeFilters,
                   sentencesList, sentencesCount, location, fields, timers,
                   tasks, quiet>>

SelectCategory(c) ==
    /\ c # categorySelect
    /\ categorySelect' = c
    /\ event' = Event("edit:categorySelect", NetworkFailure)
    /\ received' = <<>>
    /\ answered' = <<>>
    /\ sent' = <<>>
    /\ alerts' = <<>>
    /\ UNCHANGED <<nameInput, sentenceInput, addSentenceBtn, searchInput,
                   categoryFilter, userFilter, sortBy, activeFilters,
                   sentencesList, sentencesCount, location, fields, timers,
                   tasks, quiet>>

(***************************************************************************)
(* The listeners registered by init.                                       *)
(***************************************************************************)
\* click on addSentenceBtn; a disabled button dispatches no click
ClickAdd ==
    /\ ~addSentenceBtn.disabled
    /\ addSentence
    /\ event' = Event("click:addSentenceBtn", NetworkFailure)
    /\ received' = <<>>
    /\ answered' = <<>>
    /\ UNCHANGED <<nameInput, categorySelect, sentenceInput, searchInput,
                   categoryFilter, userFilter, sortBy, activeFilters,
                   sentencesList, sentencesCount, location, fields, timers,
                   quiet>>

\* keypress on sentenceInput
KeyPress(key) ==
    /\ \/ /\ key = "Enter"
          /\ addSentence
       \/ /\ key # "Enter"
          /\ sent' = <<>>
          /\ alerts' = <<>>
          /\ UNCHANGED <<addSentenceBtn, tasks>>
    /\ event' = Event(IF key = "Enter" THEN "keypress:Enter" ELSE "keypress:other",
                      NetworkFailure)
    /\ received' = <<>>
    /\ answered' = <<>>
    /\ UNCHANGED <<nameInput, categorySelect, sentenceInput, searchInput,
                   categoryFilter, userFilter, sortBy, activeFilters,
                   sentencesList, sentencesCount, location, fields, timers,
                   quiet>>

ChangeCategoryFilter(v) ==
    /\ v # categoryFilter
    /\ categoryFilter' = v
    /\ handleFilterChange("category", categoryFilter')
    /\ event' = Event("change:categoryFilter", NetworkFailure)
    /\ received' = <<>>
    /\ answered' = <<>>
    /\ alerts' = <<>>
    /\ UNCHANGED <<nameInput, categorySelect, sentenceInput, addSentenceBtn,
                   searchInput, userFilter, sortBy, activeFilters,
                   sentencesList, sentencesCount, location, allSentences,
                   allUsers, searchTimeout, timers, quiet>>

ChangeUserFilter(v) ==
    /\ v \in Range(userFilter.options)
    /\ v # userFilter.value
    /\ userFilter' = [userFilter EXCEPT !.value = v]
    /\ handleFilterChange("user", userFilter'.value)
    /\ event' = Event("change:userFilter", NetworkFailure)
    /\ received' = <<>>
    /\ answered' = <<>>
    /\ alerts' = <<>>
    /\ UNCHANGED <<nameInput, categorySelect, sentenceInput, addSentenceBtn,
                   searchInput, categoryFilter, sortBy, activeFilters,
                   sentencesList, sentencesCount, location, allSentences,
                   allUsers, searchTimeout, timers, quiet>>

ChangeSortBy(v) ==
    /\ v # sortBy
    /\ sortBy' = v
    /\ handleFilterChange("sortBy", sortBy')
    /\ event' = Event("change:sortBy", NetworkFailure)
    /\ received' = <<>>
    /\ answered' = <<>>
    /\ alerts' = <<>>
    /\ UNCHANGED <<nameInput, categorySelect, sentenceInput, addSentenceBtn,
                   searchInput, categoryFilter, userFilter, activeFilters,
                   sentencesList, sentencesCount, location, allSentences,
                   allUsers, searchTimeout, timers, quiet>>

\* a clearAllFilters that leaves the text of the search field
clearAllFilters_KeepsSearchText ==
    /\ currentFilters' = DefaultFilters
    /\ categoryFilter' = "all"
    /\ userFilter' = [userFilter EXCEPT !.value = SelectValue(userFilter.options, "all")]
    /\ sortBy' = "newest"
    /\ fetchFromListener(currentFilters')
    /\ event' = Event("click:clearFilters", NetworkFailure)
    /\ received' = <<>>
    /\ answered' = <<>>
    /\ alerts' = <<>>
    /\ UNCHANGED <<nameInput, categorySelect, sentenceInput, addSentenceBtn,
                   searchInput, activeFilters, sentencesList, sentencesCount,
                   location, allSentences, allUsers, searchTimeout, timers,
                   quiet>>

\* click on clearFilters
clearAllFilters ==
    /\ currentFilters' = DefaultFilters
    /\ categoryFilter' = "all"
    /\ userFilter' = [userFilter EXCEPT !.value = SelectValue(userFilter.options, "all")]
    /\ sortBy' = "newest"
    /\ searchInput' = ""
    /\ fetchFromListener(currentFilters')
    /\ event' = Event("click:clearFilters", NetworkFailure)
    /\ received' = <<>>
    /\ answered' = <<>>
    /\ alerts' = <<>>
    /\ UNCHANGED <<nameInput, categorySelect, sentenceInput, addSentenceBtn,
                   activeFilters, sentencesList, sentencesCount, location,
                   allSentences, allUsers, searchTimeout, timers, quiet>>

\* a clearTimeout that cancels nothing
clearTimeout_Noop(pending, handle) == pending

\* a clearTimeout that cancels a timer only once it is due
clearTimeout_OnlyDue(pending, handle) ==
    {t \in pending : t.id # handle \/ t.elapsed < DEBOUNCE_MS}

\* clearTimeout(handle): cancels the pending timer with that handle, if any
clearTimeout(pending, handle) == {t \in pending : t.id # handle}

\* the handle setTimeout returns: one that names no pending timer and is not
\* the handle the controller still holds
FreshHandles(pending, held) ==
    {h \in 1..MaxTimers : h # held /\ \A t \in pending : t.id # h}

\* input on searchInput
InputSearch(v) ==
    /\ v # searchInput
    /\ searchInput' = v
    /\ LET cleared == clearTimeout(timers, searchTimeout)
       IN  /\ FreshHandles(cleared, searchTimeout) # {}
           /\ LET h == CHOOSE h \in FreshHandles(cleared, searchTimeout) :
                           \A g \in FreshHandles(cleared, searchTimeout) : h <= g
              IN  /\ timers' = cleared \cup {[id |-> h, elapsed |-> 0]}
                  /\ searchTimeout' = h
    /\ quiet' = 0
    /\ event' = Event("input:searchInput", NetworkFailure)
    /\ received' = <<>>
    /\ answered' = <<>>
    /\ sent' = <<>>
    /\ alerts' = <<>>
    /\ UNCHANGED <<nameInput, categorySelect, sentenceInput, addSentenceBtn,
                   categoryFilter, userFilter, sortBy, activeFilters,
                   sentencesList, sentencesCount, location, allSentences,
                   allUsers, currentFilters, tasks>>

\* the clock advances by TickMs
Tick ==
    /\ quiet < DEBOUNCE_MS \/ \E t \in timers : t.elapsed < DEBOUNCE_MS
    /\ quiet' = Min(quiet + TickMs, DEBOUNCE_MS)
    /\ timers' = {[t EXCEPT !.elapsed = Min(t.elapsed + TickMs, DEBOUNCE_MS)] :
                     t \in timers}
    /\ event' = Event("tick", NetworkFailure)
    /\ received' = <<>>
    /\ answered' = <<>>
    /\ sent' = <<>>
    /\ alerts' = <<>>
    /\ UNCHANGED <<dom, fields, tasks>>

\* the callback of the search listener's setTimeout
SearchTimeout(t) ==
    /\ t \in timers
    /\ t.elapsed >= DEBOUNCE_MS
    /\ timers' = timers \ {t}
    /\ handleFilterChange("search", searchInput)
    /\ event' = Event("timeout:search", NetworkFailure)
    /\ received' = <<>>
    /\ answered' = <<>>
    /\ alerts' = <<>>
    /\ UNCHANGED <<dom, allSentences, allUsers, searchTimeout, quiet>>

\* click on the delete button of the i-th rendered item, and the user's answer
\* to confirm()
ClickDelete(i, confirmed) ==
    /\ i \in 1..Len(sentencesList)
    /\ sentencesList[i].deleteBtn # <<>>
    /\ deleteSentence(sentencesList[i].deleteBtn[1], confirmed)
    /\ event' = Event(IF confirmed THEN "click:delete-btn/confirmed"
                      ELSE "click:delete-btn/cancelled", NetworkFailure)
    /\ received' = <<>>
    /\ answered' = <<>>
    /\ alerts' = <<>>
    /\ UNCHANGED <<dom, fields, timers, quiet>>

(***************************************************************************)
(* The continuations: a suspended call chain resumes when the promise it   *)
(* awaits settles, and runs to its next await or to its end.               *)
(***************************************************************************)
\* the chain without its 401 branch
CreateBranch_No401(status) ==
    CASE status = NetworkFailure -> "catch"
      [] Ok(status)              -> "reload"
      [] OTHER                   -> "error"

\* the if / else-if chain of addSentence on the answer to the POST; a fetch
\* that rejects goes to the catch block
CreateBranch(status) ==
    CASE status = NetworkFailure -> "catch"
      [] Ok(status)              -> "reload"
      [] status = 401            -> "login"
      [] OTHER                   -> "error"

\* addSentence resumes after await fetch(POST)
ResumeCreate(i, status) ==
    /\ tasks[i].pc = "create"
    /\ event' = Event("resume:create", status)
    /\ received' = <<>>
    /\ answered' = <<tasks[i].req>>
    /\ \/ /\ CreateBranch(status) = "reload"
          /\ sentenceInput' = ""
          /\ categorySelect' = "thoughts"
          /\ loadInitialData(i)
          /\ alerts' = <<>>
          /\ UNCHANGED <<addSentenceBtn, location>>
       \/ /\ CreateBranch(status) = "login"
          /\ alerts' = CreateUnauthorizedAlert
          /\ location' = LoginRoute
          /\ sent' = <<>>
          /\ Finish(i)
          /\ UNCHANGED <<sentenceInput, categorySelect>>
       \/ /\ CreateBranch(status) = "catch"
          /\ alerts' = <<"Error creating message: ", "Failed to fetch">>
          /\ sent' = <<>>
          /\ Finish(i)
          /\ UNCHANGED <<sentenceInput, categorySelect, location>>
       \/ /\ CreateBranch(status) = "error"
          /\ tasks' = [tasks EXCEPT ![i].pc = "createError"]
          /\ sent' = <<>>
          /\ alerts' = <<>>
          /\ UNCHANGED <<sentenceInput, categorySelect, addSentenceBtn, location>>
    /\ UNCHANGED <<nameInput, searchInput, categoryFilter, userFilter, sortBy,
                   activeFilters, sentencesList, sentencesCount, fields,
                   timers, quiet>>

\* errorData.error || fallback; body is <<>> when the property is absent
ErrorMessage(body, fallback) ==
    IF body # <<>> /\ body[1] # "" THEN body[1] ELSE fallback

\* addSentence resumes after await response.json() of a non-2xx answer;
\* parsed is FALSE when the body is no JSON
ResumeCreateError(i, parsed, body) ==
    /\ tasks[i].pc = "createError"
    /\ event' = Event("resume:createError", NetworkFailure)
    /\ received' = IF parsed THEN <<body>> ELSE <<>>
    /\ answered' = <<tasks[i].req>>
    /\ alerts' = <<"Error creating message: ",
                   IF parsed THEN ErrorMessage(body, "Failed to add message.")
                   ELSE "Unexpected token">>
    /\ sent' = <<>>
    /\ Finish(i)
    /\ UNCHANGED <<nameInput, categorySelect, sentenceInput, searchInput,
                   categoryFilter, userFilter, sortBy, activeFilters,
                   sentencesList, sentencesCount, location, fields, timers,
                   quiet>>

\* the chain without its 403 branch
DeleteBranch_No403(status) ==
    CASE status = NetworkFailure -> "catch"
      [] Ok(status)              -> "reload"
      [] status = 401            -> "login"
      [] OTHER                   -> "error"

\* the if / else-if chain of deleteSentence on the answer to the DELETE
DeleteBranch(status) ==
    CASE status = NetworkFailure -> "catch"
      [] Ok(status)              -> "reload"
      [] status = 403            -> "forbidden"
      [] status = 401            -> "login"
      [] OTHER                   -> "error"

\* deleteSentence resumes after await fetch(DELETE)
ResumeDelete(i, status) ==
    /\ tasks[i].pc = "delete"
    /\ event' = Event("resume:delete", status)
    /\ received' = <<>>
    /\ answered' = <<tasks[i].req>>
    /\ \/ /\ DeleteBranch(status) = "reload"
          /\ loadInitialData(i)
          /\ alerts' = <<>>
          /\ UNCHANGED <<addSentenceBtn, location>>
       \/ /\ DeleteBranch(status) = "forbidden"
          /\ alerts' = ForbiddenAlert
          /\ sent' = <<>>
          /\ Finish(i)
          /\ UNCHANGED location
       \/ /\ DeleteBranch(status) = "login"
          /\ alerts' = DeleteUnauthorizedAlert
          /\ location' = LoginRoute
          /\ sent' = <<>>
          /\ Finish(i)
       \/ /\ DeleteBranch(status) = "catch"
          /\ alerts' = <<"Error deleting message: ", "Failed to fetch">>
          /\ sent' = <<>>
          /\ Finish(i)
          /\ UNCHANGED location
       \/ /\ DeleteBranch(status) = "error"
          /\ tasks' = [tasks EXCEPT ![i].pc = "deleteError"]
          /\ sent' = <<>>
          /\ alerts' = <<>>
          /\ UNCHANGED <<addSentenceBtn, location>>
    /\ UNCHANGED <<nameInput, categorySelect, sentenceInput, searchInput,
                   categoryFilter, userFilter, sortBy, activeFilters,
                   sentencesList, sentencesCount, fields, timers, quiet>>

\* deleteSentence resumes after await response.json() of a non-2xx answer
ResumeDeleteError(i, parsed, body) ==
    /\ tasks[i].pc = "deleteError"
    /\ event' = Event("resume:deleteError", NetworkFailure)
    /\ received' = IF parsed THEN <<body>> ELSE <<>>
    /\ answered' = <<tasks[i].req>>
    /\ alerts' = <<"Error deleting message: ",
                   IF parsed THEN ErrorMessage(body, "Failed to delete message")
                   ELSE "Unexpected token">>
    /\ sent' = <<>>
    /\ Finish(i)
    /\ UNCHANGED <<nameInput, categorySelect, sentenceInput, searchInput,
                   categoryFilter, userFilter, sortBy, activeFilters,
                   sentencesList, sentencesCount, location, fields, timers,
                   quiet>>

\* a loadInitialData that gives up when the user list fails to load
ResumeUsers_FailureStops(i, status) ==
    /\ tasks[i].pc = "users"
    /\ event' = Event("resume:users", status)
    /\ received' = <<>>
    /\ answered' = <<tasks[i].req>>
    /\ \/ /\ Ok(status)
          /\ tasks' = [tasks EXCEPT ![i].pc = "usersJson"]
          /\ UNCHANGED addSentenceBtn
       \/ /\ ~Ok(status)
          /\ Finish(i)
    /\ sent' = <<>>
    /\ alerts' = <<>>
    /\ UNCHANGED <<nameInput, categorySelect, sentenceInput, searchInput,
                   categoryFilter, userFilter, sortBy, activeFilters,
                   sentencesList, sentencesCount, location, fields, timers,
                   quiet>>

\* loadUsersForFilter resumes after await fetch(users); on a failure its catch
\* logs, it returns, and loadInitialData goes on to fetchAndRenderSentences
ResumeUsers(i, status) ==
    /\ tasks[i].pc = "users"
    /\ event' = Event("resume:users", status)
    /\ received' = <<>>
    /\ answered' = <<tasks[i].req>>
    /\ \/ /\ Ok(status)
          /\ tasks' = [tasks EXCEPT ![i].pc = "usersJson"]
          /\ sent' = <<>>
       \/ /\ ~Ok(status)
          /\ fetchAndRenderSentences(i)
    /\ alerts' = <<>>
    /\ UNCHANGED <<dom, fields, timers, quiet>>

\* loadUsersForFilter resumes after await response.json()
ResumeUsersJson(i, parsed, users) ==
    /\ tasks[i].pc = "usersJson"
    /\ event' = Event("resume:usersJson", IF parsed THEN 200 ELSE NetworkFailure)
    /\ received' = IF parsed THEN <<users>> ELSE <<>>
    /\ answered' = <<tasks[i].req>>
    /\ \/ /\ parsed
          /\ allUsers' = received'[1]
          /\ userFilter' =
                 [options |-> UserOptions(allUsers'),
                  value |-> SelectValue(UserOptions(allUsers'),
                                        Get(currentFilters, "user"))]
       \/ /\ ~parsed
          /\ UNCHANGED <<allUsers, userFilter>>
    /\ fetchAndRenderSentences(i)
    /\ alerts' = <<>>
    /\ UNCHANGED <<nameInput, categorySelect, sentenceInput, addSentenceBtn,
                   searchInput, categoryFilter, sortBy, activeFilters,
                   sentencesList, sentencesCount, location, allSentences,
                   currentFilters, searchTimeout, timers, quiet>>

\* a catch block that also resets the count
ResumeSentences_FailureResetsCount(i, status) ==
    /\ tasks[i].pc = "sentences"
    /\ event' = Event("resume:sentences", status)
    /\ received' = <<>>
    /\ answered' = <<tasks[i].req>>
    /\ \/ /\ Ok(status)
          /\ tasks' = [tasks EXCEPT ![i].pc = "sentencesJson"]
          /\ UNCHANGED <<sentencesList, sentencesCount, addSentenceBtn>>
       \/ /\ ~Ok(status)
          /\ sentencesList' = <<ErrorState>>
          /\ sentencesCount' = <<0>>
          /\ Finish(i)
    /\ sent' = <<>>
    /\ alerts' = <<>>
    /\ UNCHANGED <<nameInput, categorySelect, sentenceInput, searchInput,
                   categoryFilter, userFilter, sortBy, activeFilters,
                   location, fields, timers, quiet>>

\* fetchAndRenderSentences resumes after await fetch(sentences)
ResumeSentences(i, status) ==
    /\ tasks[i].pc = "sentences"
    /\ event' = Event("resume:sentences", status)
    /\ received' = <<>>
    /\ answered' = <<tasks[i].req>>
    /\ \/ /\ Ok(status)
          /\ tasks' = [tasks EXCEPT ![i].pc = "sentencesJson"]
          /\ UNCHANGED <<sentencesList, addSentenceBtn>>
       \/ /\ ~Ok(status)
          /\ sentencesList' = <<ErrorState>>
          /\ Finish(i)
    /\ sent' = <<>>
    /\ alerts' = <<>>
    /\ UNCHANGED <<nameInput, categorySelect, sentenceInput, searchInput,
                   categoryFilter, userFilter, sortBy, activeFilters,
                   sentencesCount, location, fields, timers, quiet>>

\* fetchAndRenderSentences resumes after await response.json(): renderSentences
\* and renderActiveFiltersText, or the catch block
ResumeSentencesJson(i, parsed, sentences) ==
    /\ tasks[i].pc = "sentencesJson"
    /\ event' = Event("resume:sentencesJson",
                      IF parsed THEN 200 ELSE NetworkFailure)
    /\ received' = IF parsed THEN <<sentences>> ELSE <<>>
    /\ answered' = <<tasks[i].req>>
    /\ \/ /\ parsed
          /\ allSentences' = received'[1]
          /\ sentencesList' = RenderList(allSentences', nameInput)
          /\ sentencesCount' = <<Len(allSentences')>>
          /\ activeFilters' = FilterParts(currentFilters)
       \/ /\ ~parsed
          /\ sentencesList' = <<ErrorState>>
          /\ UNCHANGED <<allSentences, sentencesCount, activeFilters>>
    /\ Finish(i)
    /\ sent' = <<>>
    /\ alerts' = <<>>
    /\ UNCHANGED <<nameInput, categorySelect, sentenceInput, searchInput,
                   categoryFilter, userFilter, sortBy, location, allUsers,
                   currentFilters, searchTimeout, timers, quiet>>

Resume(i) ==
    \/ \E status \in WriteStatuses \cup {NetworkFailure} :
           \/ ResumeCreate(i, status)
           \/ ResumeDelete(i, status)
    \/ \E status \in ReadStatuses \cup {NetworkFailure} :
           \/ ResumeUsers(i, status)
           \/ ResumeSentences(i, status)
    \/ \E body \in ErrorBodies :
           \/ ResumeCreateError(i, TRUE, body)
           \/ ResumeDeleteError(i, TRUE, body)
    \/ ResumeCreateError(i, FALSE, <<>>)
    \/ ResumeDeleteError(i, FALSE, <<>>)
    \/ \E users \in UserLists : ResumeUsersJson(i, TRUE, users)
    \/ ResumeUsersJson(i, FALSE, <<>>)
    \/ \E sentences \in SentenceLists : ResumeSentencesJson(i, TRUE, sentences)
    \/ ResumeSentencesJson(i, FALSE, <<>>)

UserAction ==
    /\ actions < MaxActions
    /\ actions' = actions + 1
    /\ \/ \E c \in PostCategories : SelectCategory(c)
       \/ ClickAdd
       \/ \E key \in Keys : KeyPress(key)
       \/ \E v \in CategoryOptions : ChangeCategoryFilter(v)
       \/ \E v \in Range(userFilter.options) : ChangeUserFilter(v)
       \/ \E v \in SortOptions : ChangeSortBy(v)
       \/ clearAllFilters
       \/ \E v \in SearchValues : InputSearch(v)
       \/ \E i \in 1..Len(sentencesList), confirmed \in BOOLEAN :
              ClickDelete(i, confirmed)

ResumeStep(i) == i \in 1..Len(tasks) /\ Resume(i) /\ UNCHANGED actions

Next ==
    \/ UserAction
    \/ \E v \in TextValues : TypeSentence(v) /\ UNCHANGED actions
    \/ Tick /\ UNCHANGED actions
    \/ \E t \in timers : SearchTimeout(t) /\ UNCHANGED actions
    \/ \E i \in 1..Len(tasks) : ResumeStep(i)

Spec == Init /\ [][Next]_vars

\* every request that was issued is answered or fails, and the continuation
\* that awaits it then runs
FairSpec == Spec /\ \A i \in 1..MaxTasks : WF_vars(ResumeStep(i))

(***************************************************************************)
(* Properties.                                                             *)
(***************************************************************************)
AddEvents == {"click:addSentenceBtn", "keypress:Enter"}
SentenceGets(requests) ==
    {k \in 1..Len(requests) :
        requests[k].method = "GET" /\ requests[k].url = SentencesUrl}
FetchFailed(e) ==
    \/ e.type = "resume:sentences" /\ ~Ok(e.status)
    \/ e.type = "resume:sentencesJson" /\ e.status = NetworkFailure
FetchRendered(e) == e.type = "resume:sentencesJson" /\ Ok(e.status)

\* C1: an addSentence call whose trimmed text or trimmed name is empty shows
\* the alert and does nothing else: no request is issued, the submit button,
\* the input fields, FilterState, the rendered list and the pending call
\* chains are as before.
C1_EmptySubmitOnlyAlerts ==
    [][ ( /\ event'.type \in AddEvents
          /\ Trim(sentenceInput) = "" \/ Trim(nameInput) = "" )
        => ( /\ sent' = <<>>
             /\ alerts' = EmptyAlert
             /\ UNCHANGED <<dom, fields, tasks, timers>> ) ]_vars

\* C1 witness: Enter was pressed with a text but a blank name, and only the
\* alert came of it
C1_Witness ==
    /\ event.type = "keypress:Enter"
    /\ Trim(sentenceInput) # ""
    /\ Trim(nameInput) = ""
    /\ alerts = EmptyAlert
    /\ sent = <<>>

\* the create requests awaiting their answer
CreatesInFlight == {i \in 1..Len(tasks) : tasks[i].pc = "create"}

\* C3: at most one create (POST) request is in flight at any time.
C3_AtMostOneCreateInFlight == Cardinality(CreatesInFlight) <= 1

\* C2: whenever the submit button is disabled, it is enabled again later
\* (every addSentence call that disabled it reaches its finally block), given
\* that every request is answered or fails.
C2_ButtonReEnabled == addSentenceBtn.disabled ~> ~addSentenceBtn.disabled

\* C2 witness: an addSentence call ended on the error path of a non-2xx
\* answer and the button is enabled
C2_Witness ==
    /\ event.type = "resume:createError"
    /\ ~addSentenceBtn.disabled
    /\ addSentenceBtn.textContent = "Add"

\* C4: the search timer's callback runs only when DEBOUNCE_MS have passed
\* since the last keystroke in the search field, it issues exactly one
\* sentence-list request, whose search value is the field's value at that
\* moment, it leaves no timer pending (one fetch per quiet window), and
\* FilterState.search changes in no other step than this callback and
\* clearAllFilters.
C4_DebouncedSearch ==
    [][ /\ event'.type = "timeout:search"
           => ( /\ quiet >= DEBOUNCE_MS
                /\ Len(sent') = 1
                /\ SentenceGets(sent') = {1}
                /\ \E j \in 1..Len(sent'[1].query) :
                       sent'[1].query[j] = <<"search", searchInput>>
                /\ Get(currentFilters', "search") = searchInput
                /\ timers' = {} )
        /\ Get(currentFilters', "search") # Get(currentFilters, "search")
           => event'.type \in {"timeout:search", "click:clearFilters"}
        /\ event'.type = "input:searchInput"
           => sent' = <<>> /\ currentFilters' = currentFilters ]_vars

\* C4 witness: the callback ran and committed the typed value
C4_Witness ==
    /\ event.type = "timeout:search"
    /\ Get(currentFilters, "search") = "x"
    /\ searchInput = "x"
    /\ SentenceGets(sent) = {1}

\* C5: a 2xx answer to a create or a delete issues the user-list request and
\* nothing else; the sentence-list request of a reload is issued by the step
\* in which the user-list request is settled, whether it succeeded or
\* failed, and by no other continuation.
C5_ReloadUsersThenSentences ==
    [][ /\ ( event'.type \in {"resume:create", "resume:delete"}
             /\ Ok(event'.status) )
           => sent' = <<UsersRequest>>
        /\ ( \/ event'.type = "resume:users" /\ ~Ok(event'.status)
             \/ event'.type = "resume:usersJson" )
           => ( Len(sent') = 1 /\ SentenceGets(sent') = {1} )
        /\ ( \/ event'.type \in {"resume:create", "resume:createError",
                                 "resume:delete", "resume:deleteError",
                                 "resume:sentences", "resume:sentencesJson"}
             \/ event'.type = "resume:users" /\ Ok(event'.status) )
           => SentenceGets(sent') = {} ]_vars

\* C5 witness: in a delete chain the user-list request has failed and the
\* sentence-list request was issued all the same
C5_Witness ==
    /\ event.type = "resume:users"
    /\ ~Ok(event.status)
    /\ \E i \in 1..Len(tasks) :
           tasks[i].kind = "delete" /\ tasks[i].pc = "sentences"
    /\ SentenceGets(sent) = {1}

\* C6: on a 401 answer to a create or a delete the controller navigates to
\* the login route, the call chain ends without issuing a request, and
\* allSentences, the rendered list and FilterState are as before.
C6_UnauthorizedNavigates ==
    [][ ( event'.type \in {"resume:create", "resume:delete"}
          /\ event'.status = 401 )
        => ( /\ location' = LoginRoute
             /\ alerts' \in {CreateUnauthorizedAlert, DeleteUnauthorizedAlert}
             /\ sent' = <<>>
             /\ Len(tasks') = Len(tasks) - 1
             /\ UNCHANGED <<allSentences, sentencesList, sentencesCount,
                            currentFilters>> ) ]_vars

\* C6 witness: a create was answered 401 and the page went to the login route
C6_Witness ==
    /\ event = Event("resume:create", 401)
    /\ location = LoginRoute
    /\ alerts = CreateUnauthorizedAlert

\* C7: on a 403 answer to a delete the forbidden alert is shown, the call
\* chain ends, and nothing else changes: no navigation, no request, the
\* controls, the rendered list, allSentences and FilterState are as before.
C7_ForbiddenOnlyAlerts ==
    [][ event' = Event("resume:delete", 403)
        => ( /\ alerts' = ForbiddenAlert
             /\ sent' = <<>>
             /\ Len(tasks') = Len(tasks) - 1
             /\ UNCHANGED <<dom, fields, timers>> ) ]_vars

\* C7 witness: a delete was answered 403 on the dashboard
C7_Witness ==
    /\ event = Event("resume:delete", 403)
    /\ alerts = ForbiddenAlert
    /\ location = Dashboard
    /\ sentencesList # <<>>

\* the sentences the list shows, in order
Shown(list) ==
    IF list = <<EmptyState>> THEN <<>>
    ELSE [i \in 1..Len(list) |-> list[i].sentence[1]]
NoError(list) == \A i \in 1..Len(list) : list[i].kind # "error"

\* C8 as stated: after the first successful fetch the visible list is always
\* the response of the most recent successful sentence-list fetch.
C8_ListIsLastSuccess ==
    sentencesCount # <<>>
    => NoError(sentencesList) /\ Shown(sentencesList) = allSentences

\* C8 amended: a successful sentence-list fetch makes the visible list the
\* unmodified response; a failed one makes it the single error entry; no
\* other step changes the visible list.
C8_ListIsLastFetchOutcome ==
    [][ /\ FetchRendered(event')
           => ( /\ NoError(sentencesList')
                /\ Shown(sentencesList') = received'[1]
                /\ allSentences' = received'[1] )
        /\ FetchFailed(event')
           => sentencesList' = <<ErrorState>> /\ allSentences' = allSentences
        /\ ~FetchRendered(event') /\ ~FetchFailed(event')
           => UNCHANGED <<sentencesList, allSentences>> ]_vars

\* C8 witness: a fetch failed after an earlier one had succeeded with a
\* non-empty result, and the list shows the error entry
C8_Witness ==
    /\ FetchFailed(event)
    /\ sentencesCount = <<1>>
    /\ Len(allSentences) = 1
    /\ sentencesList = <<ErrorState>>

FilterKeys == {"category", "user", "sortBy", "search"}

\* C9: every sentence-list request carries exactly the four parameters
\* category, user, sortBy and search, each once, each with FilterState's
\* value at the moment the request is issued.
C9_QueryIsFilterState ==
    \A k \in SentenceGets(sent) :
        LET q == sent[k].query
        IN  /\ Len(q) = 4
            /\ {q[j][1] : j \in 1..Len(q)} = FilterKeys
            /\ \A j \in 1..Len(q) :
                   /\ HasKey(currentFilters, q[j][1])
                   /\ q[j][2] = Get(currentFilters, q[j][1])

\* C9 witness: a request issued by a filter change, with non-default filters
C9_Witness ==
    /\ event.type = "change:sortBy"
    /\ SentenceGets(sent) = {1}
    /\ Get(currentFilters, "sortBy") = "oldest"
    /\ Get(currentFilters, "category") = "jokes"

\* C10: a render attaches a delete button to an item exactly if the item's
\* author equals the name field, the button carries the item's id, and a
\* confirmed click on a button sends the delete request for the id of an
\* item that has one.
C10_DeleteButtonForOwnItems ==
    [][ /\ FetchRendered(event')
           => \A i \in 1..Len(sentencesList') :
                  LET item == sentencesList'[i]
                  IN  item.kind = "sentence-item"
                      => /\ item.deleteBtn # <<>>
                            <=> item.sentence[1].name = nameInput'
                         /\ item.deleteBtn # <<>>
                            => item.deleteBtn = <<item.sentence[1].id>>
        /\ event'.type = "click:delete-btn/confirmed"
           => \E i \in 1..Len(sentencesList) :
                  /\ sentencesList[i].deleteBtn # <<>>
                  /\ sentencesList[i].sentence[1].name = nameInput
                  /\ sent' = <<[method |-> "DELETE",
                               url |-> <<"api", "sentences",
                                         sentencesList[i].sentence[1].id>>,
                               query |-> <<>>, body |-> <<>>]>> ]_vars

\* C10 witness: the button of the user's own item was clicked and the delete
\* request for that item went out
C10_Witness ==
    /\ event.type = "click:delete-btn/confirmed"
    /\ Len(sentencesList) = 1
    /\ sentencesList[1].sentence[1].name = nameInput
    /\ sent = <<DeleteRequest(sentencesList[1].sentence[1].id)>>

DeleteClicks == {"click:delete-btn/confirmed", "click:delete-btn/cancelled"}
DeletesIn(requests) ==
    {k \in 1..Len(requests) : requests[k].method = "DELETE"}
\* the delete chains that wait for an answer at one of the given awaits
DeleteChainsAt(ts, pcs) ==
    {i \in 1..Len(ts) : ts[i].kind = "delete" /\ ts[i].pc \in pcs}

\* C11: a DELETE request is issued only by a click on a delete button that
\* the user confirmed; a declined click issues no request and changes
\* nothing; the click and the continuations of the DELETE leave the rendered
\* list, the count and allSentences as they are; a delete chain starts its
\* reload only on a 2xx answer to the DELETE, and the list changes only in
\* the steps that settle a sentence-list fetch.
C11_DeleteOnlyAfterConfirm ==
    [][ /\ event'.type = "click:delete-btn/cancelled"
           => ( /\ sent' = <<>>
                /\ alerts' = <<>>
                /\ UNCHANGED <<dom, fields, tasks, timers>> )
        /\ DeletesIn(sent') # {}
           => ( /\ event'.type = "click:delete-btn/confirmed"
                /\ Len(sent') = 1 )
        /\ event'.type \in DeleteClicks \cup {"resume:delete", "resume:deleteError"}
           => UNCHANGED <<sentencesList, sentencesCount, allSentences>>
        /\ Cardinality(DeleteChainsAt(tasks', {"users"}))
               > Cardinality(DeleteChainsAt(tasks, {"users"}))
           => ( event'.type = "resume:delete" /\ Ok(event'.status) )
        /\ sentencesList' # sentencesList
           => event'.type \in {"resume:sentences", "resume:sentencesJson"} ]_vars

\* C11 witness: the user declined the confirmation of a click on the delete
\* button of their own item; no request went out and no call chain started
C11_Witness ==
    /\ event.type = "click:delete-btn/cancelled"
    /\ \E i \in 1..Len(sentencesList) : sentencesList[i].deleteBtn # <<>>
    /\ sent = <<>>
    /\ tasks = <<>>

\* C12: when a sentence-list fetch succeeds with an empty result, the list
\* the render leaves has exactly one entry, the empty-state entry, no entry
\* has a delete button, and the count shows 0.
C12_EmptyResultRendersEmptyState ==
    ( FetchRendered(event) /\ received = << <<>> >> )
    => ( /\ Len(sentencesList) = 1
         /\ sentencesList[1].kind = "empty-state"
         /\ sentencesList[1].sentence = <<>>
         /\ \A i \in 1..Len(sentencesList) : sentencesList[i].deleteBtn = <<>>
         /\ sentencesCount = <<0>>
         /\ allSentences = <<>> )

\* C12 witness: an empty result was rendered after the user had acted
C12_Witness ==
    /\ FetchRendered(event)
    /\ received = << <<>> >>
    /\ sentencesList = <<EmptyState>>
    /\ sentencesCount = <<0>>
    /\ event.type = "resume:sentencesJson"
    /\ actions > 0

ResumeEvents ==
    {"resume:create", "resume:createError", "resume:delete",
     "resume:deleteError", "resume:users", "resume:usersJson",
     "resume:sentences", "resume:sentencesJson"}
\* the last step rendered the response to a request whose query is not the
\* FilterState of the moment
StaleRender(e, a, filters) ==
    /\ FetchRendered(e)
    /\ a # <<>>
    /\ a[1].query # URLSearchParams(filters)

\* C13: sentence-list requests are neither cancelled nor versioned: a
\* listener or timer step leaves every call chain in flight where it is and
\* only adds its own, a continuation touches no chain but its own, and a
\* successful response is rendered as it is also when the query of its
\* request is not the current FilterState; the summary is then written from
\* the current FilterState. (The witness is the reachable state the claim
\* names: nothing in flight, and the list answers another FilterState.)
C13_NoCancelNoVersion ==
    [][ /\ event'.type \notin ResumeEvents
           => ( /\ Len(tasks') >= Len(tasks)
                /\ SubSeq(tasks', 1, Len(tasks)) = tasks )
        /\ event'.type \in ResumeEvents
           => \E i \in 1..Len(tasks) :
                  /\ answered' = <<tasks[i].req>>
                  /\ \/ tasks' = RemoveAt(tasks, i)
                     \/ /\ Len(tasks') = Len(tasks)
                        /\ \A j \in 1..Len(tasks) : j # i => tasks'[j] = tasks[j]
        /\ StaleRender(event', answered', currentFilters')
           => ( /\ allSentences' = received'[1]
                /\ Shown(sentencesList') = received'[1]
                /\ NoError(sentencesList')
                /\ sentencesCount' = <<Len(received'[1])>>
                /\ activeFilters' = FilterParts(currentFilters') ) ]_vars

\* C13 witness: no request is in flight, and the list that was just rendered
\* is the response to the request of the first of two filter changes, whose
\* query differs from the current FilterState
C13_Witness ==
    /\ tasks = <<>>
    /\ StaleRender(event, answered, currentFilters)
    /\ allSentences = received[1]
    /\ Shown(sentencesList) = received[1]
    /\ actions = 2
    /\ Get(currentFilters, "category") = "jokes"
    /\ Get(currentFilters, "sortBy") = "oldest"
    /\ answered[1].query = URLSearchParams(SetProp(currentFilters, "sortBy", "newest"))

\* C14: at most one search timer is pending, and it is the one whose handle
\* the controller holds, the timer of the latest keystroke: a timer that a
\* later keystroke superseded is no longer pending and cannot fire.
C14_AtMostOnePendingTimer ==
    /\ Cardinality(timers) <= 1
    /\ \A t \in timers : t.id = searchTimeout

\* C14 witness: a second keystroke came before the first keystroke's timer
\* had fired ("x" was typed and never committed); the only pending timer is
\* the second one, just started
C14_Witness ==
    /\ event.type = "input:searchInput"
    /\ actions = 2
    /\ searchInput = ""
    /\ Get(currentFilters, "search") = ""
    /\ searchTimeout = 2
    /\ timers = {[id |-> 2, elapsed |-> 0]}

\* the position of the call chain that init started, if it is at one of pcs
InitChainAt(ts, pcs) ==
    {i \in 1..Len(ts) : ts[i].kind = "init" /\ ts[i].pc \in pcs}
\* the step is a continuation of the call chain at position i
StepOf(i) ==
    \/ tasks' = RemoveAt(tasks, i)
    \/ /\ Len(tasks') = Len(tasks)
       /\ tasks'[i] # tasks[i]
\* a user-list load has just failed
StartupUsersFailed(e) ==
    \/ e.type = "resume:users" /\ ~Ok(e.status)
    \/ e.type = "resume:usersJson" /\ e.status = NetworkFailure
\* the startup sequence, with filters the FilterState its sentence-list
\* request is to carry
StartupLoad(filters) ==
    \* the startup chain waits for the user list first
    /\ \A i \in InitChainAt(tasks, {"users", "usersJson"}) :
           tasks[i].req = UsersRequest
    \* it issues the sentence-list request in the step that settles the
    \* user-list request, and in no other
    /\ ( InitChainAt(tasks, {"sentences"}) = {}
         /\ InitChainAt(tasks', {"sentences"}) # {} )
       => ( /\ InitChainAt(tasks, {"users", "usersJson"}) # {}
            /\ \/ StartupUsersFailed(event')
               \/ event'.type = "resume:usersJson"
            /\ sent' = <<SentencesRequest(filters)>>
            /\ \A i \in InitChainAt(tasks', {"sentences"}) :
                   tasks'[i].req = SentencesRequest(filters) )
    \* a failed user-list load goes on to the sentence-list load
    /\ \A i \in InitChainAt(tasks, {"users", "usersJson"}) :
           ( StepOf(i) /\ StartupUsersFailed(event') )
           => ( /\ i \in InitChainAt(tasks', {"sentences"})
                /\ sent' = <<SentencesRequest(filters)>> )
    \* a failure alerts nothing, navigates nowhere, and leaves the fields,
    \* the timers and the other call chains as they are: the listeners
    \* answer the next event as before
    /\ ( StartupUsersFailed(event') \/ FetchFailed(event') )
       => ( /\ alerts' = <<>>
            /\ UNCHANGED <<location, fields, timers, nameInput, categorySelect,
                           sentenceInput, searchInput, categoryFilter,
                           userFilter, sortBy>>
            /\ Len(tasks') >= Len(tasks) - 1
            /\ Len(tasks') < MaxTasks => (ENABLED clearAllFilters)' )

\* C15 as stated: on startup the user-list request goes first, the
\* sentence-list request follows when it has resolved or failed, a failure
\* stops neither the sentence-list load nor later events, and the startup
\* sentence-list request carries the default filters.
C15_StartupLoadsDefaults == [][StartupLoad(DefaultFilters)]_vars

\* C15 amended: the same, but the startup sentence-list request carries the
\* FilterState of the moment it is issued, which is the default one only if
\* no filter was changed while the user-list request was pending.
C15_StartupLoadsCurrentFilters == [][StartupLoad(currentFilters')]_vars

\* C15 witness: the startup user-list request has failed, and the startup
\* chain has issued its sentence-list request all the same, with the
\* category the user had chosen in the meantime
C15_Witness ==
    /\ event.type = "resume:users"
    /\ ~Ok(event.status)
    /\ answered = <<UsersRequest>>
    /\ InitChainAt(tasks, {"sentences"}) # {}
    /\ Get(currentFilters, "category") = "jokes"
    /\ sent = <<SentencesRequest(currentFilters)>>
    /\ sent # <<SentencesRequest(DefaultFilters)>>

\* C16: after every successful user-list reload the user filter control
\* shows the user held in FilterState: its value is FilterState.user, also
\* when the reloaded list no longer has that user.
C16_ControlShowsFilterUser ==
    ( event.type = "resume:usersJson" /\ Ok(event.status) )
    => userFilter.value = Get(currentFilters, "user")

\* C17: whenever no search timer is pending, FilterState.search is the value
\* of the search field; clearAllFilters empties both and cancels no timer (a
\* keystroke less than DEBOUNCE_MS ago still has its timer pending after the
\* click), and the timer's callback leaves FilterState.search equal to the
\* field, so after a clear it commits the empty value.
C17_SearchMatchesInput ==
    /\ timers = {} => Get(currentFilters, "search") = searchInput
    /\ event.type = "click:clearFilters"
       => ( /\ searchInput = ""
            /\ currentFilters = DefaultFilters
            /\ quiet < DEBOUNCE_MS => timers # {} )
    /\ event.type = "timeout:search"
       => Get(currentFilters, "search") = searchInput

\* C17 witness: "x" was typed, clearAllFilters ran while the timer of that
\* keystroke was pending, and the timer has now fired and committed the
\* empty value: FilterState is at its defaults
C17_Witness ==
    /\ event.type = "timeout:search"
    /\ actions = 2
    /\ searchTimeout = 1
    /\ searchInput = ""
    /\ currentFilters = DefaultFilters
    /\ timers = {}

\* C18: a sentence-list fetch that fails (no response, a non-2xx status, or
\* a body that is no JSON) makes the visible list the single error entry,
\* alerts nothing, issues no request, ends its call chain, and leaves
\* allSentences, the count, the filter summary and FilterState as they are.
C18_FailedFetchShowsErrorOnly ==
    [][ FetchFailed(event')
        => ( /\ Len(sentencesList') = 1
             /\ sentencesList'[1].kind = "error"
             /\ sentencesList'[1].deleteBtn = <<>>
             /\ alerts' = <<>>
             /\ sent' = <<>>
             /\ \E i \in 1..Len(tasks) :
                    /\ tasks[i].req.url = SentencesUrl
                    /\ answered' = <<tasks[i].req>>
                    /\ tasks' = RemoveAt(tasks, i)
             /\ UNCHANGED <<allSentences, sentencesCount, activeFilters,
                            currentFilters>> ) ]_vars

\* C18 witness: the fetch of a filter change was answered 500 after an
\* earlier fetch had rendered one sentence: the list is the error entry,
\* the count and allSentences are those of the earlier result, the summary
\* still describes the earlier filters, and nothing is in flight
C18_Witness ==
    /\ event = Event("resume:sentences", 500)
    /\ sentencesList = <<ErrorState>>
    /\ sentencesCount = <<1>>
    /\ Len(allSentences) = 1
    /\ Get(currentFilters, "category") = "jokes"
    /\ activeFilters = FilterParts(DefaultFilters)
    /\ alerts = <<>>
    /\ sent = <<>>
    /\ tasks = <<>>

=============================================================================
